---- MODULE Spec2Model ----
(***************************************************************************)
(* Model of parser-visualizer/backend: the AST converter, the tree         *)
(* flattener, parse_code and the POST /api/parse handler.                  *)
(*                                                                         *)
(* Source text is a sequence of one-character strings.  Python dicts are   *)
(* records (functions on strings), Python lists are sequences, Python's    *)
(* None is the record None.  An f-string is the sequence of its pieces.    *)
(***************************************************************************)
EXTENDS Integers, Sequences, FiniteSets, TLC

\* Longest source text the environment submits.
MaxLen == 3
\* Largest node count at which an unexpected error is injected into conversion.
\* No successful conversion creates exactly 2 or 3 nodes, so a counter of 2 or 3
\* is always the trace of a conversion that failed part-way.
MaxFault == 2

None == [none |-> TRUE]

\* The characters of submitted source texts; "\n" is the only whitespace.
Chars == {"x", "-", "\n"}

RECURSIVE Texts(_)
Texts(n) == IF n = 0 THEN {<<>>} ELSE {<<>>} \cup {Append(t, c) : t \in Texts(n - 1), c \in Chars}

Codes == Texts(MaxLen)

\* No fault, or an exception raised in the conversion when k nodes exist.
Faults == {<<>>} \cup {<<k>> : k \in 0..MaxFault}

(***************************************************************************)
(* str methods                                                             *)
(***************************************************************************)

\* str.split(sep) for a one-character separator: the segments, never empty.
RECURSIVE split_from(_, _, _, _)
split_from(s, sep, i, cur) ==
    IF i > Len(s) THEN <<cur>>
    ELSE IF s[i] = sep THEN <<cur>> \o split_from(s, sep, i + 1, <<>>)
    ELSE split_from(s, sep, i + 1, Append(cur, s[i]))

split(s, sep) == split_from(s, sep, 1, <<>>)

isspace(c) == c \in {" ", "\n", "\t", "\r"}

\* str.strip(): leading and trailing whitespace removed.
RECURSIVE lstrip(_), rstrip(_)
lstrip(s) == IF s # <<>> /\ isspace(Head(s)) THEN lstrip(Tail(s)) ELSE s
rstrip(s) == IF s # <<>> /\ isspace(s[Len(s)]) THEN rstrip(SubSeq(s, 1, Len(s) - 1)) ELSE s
strip(s) == rstrip(lstrip(s))

UpperCase == <<"A", "B", "C", "D", "E", "F", "G", "H", "I", "J", "K", "L", "M",
               "N", "O", "P", "Q", "R", "S", "T", "U", "V", "W", "X", "Y", "Z">>
LowerCase == <<"a", "b", "c", "d", "e", "f", "g", "h", "i", "j", "k", "l", "m",
               "n", "o", "p", "q", "r", "s", "t", "u", "v", "w", "x", "y", "z">>

lower_char(c) ==
    IF \E i \in DOMAIN UpperCase : UpperCase[i] = c
    THEN LowerCase[CHOOSE i \in DOMAIN UpperCase : UpperCase[i] = c]
    ELSE c

\* str.lower()
lower(s) == [i \in DOMAIN s |-> lower_char(s[i])]

Digits == <<"0", "1", "2", "3", "4", "5", "6", "7", "8", "9">>

\* str(int) of a non-negative integer: its decimal digits.
RECURSIVE str_int(_)
str_int(n) == IF n < 10 THEN Digits[n + 1] ELSE str_int(n \div 10) \o Digits[(n % 10) + 1]

\* dict.get(key, default)
dict_get(d, key, default) == IF key \in DOMAIN d THEN d[key] ELSE default

\* d.pop(key)
dict_pop(d, key) == [k \in DOMAIN d \ {key} |-> d[k]]

\* d[key] = value
dict_set(d, key, value) == [k \in DOMAIN d \cup {key} |-> IF k = key THEN value ELSE d[k]]

(***************************************************************************)
(* The native parser, ast.parse, on texts over Chars.                      *)
(* Raw values: an ast.AST node, a list, a scalar, or None.                 *)
(***************************************************************************)

AST(tag, fields) == [kind |-> "AST", tag |-> tag, fields |-> fields]
List(items) == [kind |-> "list", items |-> items]
Scalar(v) == [kind |-> "scalar", value |-> v]
RawNone == [kind |-> "NoneType"]

Name(id) == AST("Name", << <<"id", Scalar(id)>>, <<"ctx", AST("Load", <<>>)>> >>)
UnaryOp(operand) == AST("UnaryOp", << <<"op", AST("USub", <<>>)>>, <<"operand", operand>> >>)
BinOp(left, right) ==
    AST("BinOp", << <<"left", left>>, <<"op", AST("Sub", <<>>)>>, <<"right", right>> >>)
Expr(value) == AST("Expr", << <<"value", value>> >>)
Module(body) == AST("Module", << <<"body", List(body)>>, <<"type_ignores", List(<<>>)>> >>)

\* The end of the run of name characters starting at i.
RECURSIVE name_end(_, _)
name_end(line, i) == IF i <= Len(line) /\ line[i] = "x" THEN name_end(line, i + 1) ELSE i

\* factor: '-' factor | NAME, from position i of a well-formed line.
RECURSIVE parse_factor(_, _)
parse_factor(line, i) ==
    IF line[i] = "-"
    THEN LET r == parse_factor(line, i + 1)
         IN  [node |-> UnaryOp(r.node), next |-> r.next]
    ELSE LET j == name_end(line, i)
         IN  [node |-> Name(SubSeq(line, i, j - 1)), next |-> j]

\* arith: factor ('-' factor)*, left-associative.
RECURSIVE parse_arith(_, _, _)
parse_arith(line, left, i) ==
    IF i > Len(line) THEN left
    ELSE LET r == parse_factor(line, i + 1)
         IN  parse_arith(line, BinOp(left, r.node), r.next)

parse_line(line) ==
    LET f == parse_factor(line, 1) IN Expr(parse_arith(line, f.node, f.next))

\* A logical line is a statement when it ends with a name; blank lines are skipped.
line_ok(line) == line = <<>> \/ line[Len(line)] = "x"

RECURSIVE parse_body(_, _)
parse_body(lines, i) ==
    IF i > Len(lines) THEN <<>>
    ELSE IF lines[i] = <<>> THEN parse_body(lines, i + 1)
    ELSE <<parse_line(lines[i])>> \o parse_body(lines, i + 1)

\* ast.parse(code): the Module, or the SyntaxError of the first malformed line.
ast_parse(code) ==
    LET lines == split(code, "\n")
        bad == {i \in DOMAIN lines : ~line_ok(lines[i])}
    IN  IF bad # {}
        THEN [raised |-> "SyntaxError",
              lineno |-> CHOOSE i \in bad : \A j \in bad : i <= j,
              msg |-> "invalid syntax"]
        ELSE [raised |-> "", tree |-> Module(parse_body(lines, 1))]

(***************************************************************************)
(* class ASTConverter                                                      *)
(***************************************************************************)

ASTConverter_init == 0

get_node_id_preincrement(counter) == [node_id |-> counter + 1, counter |-> counter + 1]

get_node_id(counter) == [node_id |-> counter, counter |-> counter + 1]

isinstance_AST(value) == value.kind = "AST"

\* attrs: the fields holding a scalar or None, as <<field, value>> in field order.
RECURSIVE attributes_from(_, _)
attributes_from(fields, i) ==
    IF i > Len(fields) THEN <<>>
    ELSE LET field == fields[i][1]
             value == fields[i][2]
         IN  (IF value.kind = "scalar" THEN << <<field, value.value>> >>
              ELSE IF value.kind = "NoneType" THEN << <<field, None>> >>
              ELSE <<>>) \o attributes_from(fields, i + 1)

get_node_attributes(node) == attributes_from(node.fields, 1)

RECURSIVE convert_node(_, _), convert_fields(_, _, _, _), convert_items(_, _, _, _, _)

\* The inner loop of convert_node over one list field.
convert_items(field, items, i, counter, children) ==
    IF i > Len(items) THEN [children |-> children, counter |-> counter]
    ELSE IF isinstance_AST(items[i])
    THEN LET c == convert_node(items[i], counter)
         IN  convert_items(field, items, i + 1, c.counter,
                 IF c.node # None
                 THEN Append(children, [field |-> field, node |-> c.node])
                 ELSE children)
    ELSE convert_items(field, items, i + 1, counter, children)

\* The loop of convert_node over ast.iter_fields(node).
convert_fields(fields, i, counter, children) ==
    IF i > Len(fields) THEN [children |-> children, counter |-> counter]
    ELSE LET field == fields[i][1]
             value == fields[i][2]
         IN  IF value.kind = "list"
             THEN LET r == convert_items(field, value.items, 1, counter, children)
                  IN  convert_fields(fields, i + 1, r.counter, r.children)
             ELSE IF isinstance_AST(value)
             THEN LET c == convert_node(value, counter)
                  IN  convert_fields(fields, i + 1, c.counter,
                          IF c.node # None
                          THEN Append(children, [field |-> field, node |-> c.node])
                          ELSE children)
             ELSE convert_fields(fields, i + 1, counter, children)

convert_node(node, counter) ==
    IF node.kind = "NoneType" THEN [node |-> None, counter |-> counter]
    ELSE IF ~isinstance_AST(node)
    THEN IF node.kind = "scalar"
         THEN [node |-> [type |-> "value", value |-> node.value], counter |-> counter]
         ELSE [node |-> None, counter |-> counter]
    ELSE LET id == get_node_id(counter)
             r == convert_fields(node.fields, 1, id.counter, <<>>)
         IN  [node |-> [id |-> id.node_id,
                        name |-> node.tag,
                        attributes |-> get_node_attributes(node),
                        children |-> r.children],
              counter |-> r.counter]

\* The exception an injected fault raises in convert_node: with k nodes created
\* by this conversion, iff the conversion creates more than k.
raises(fault, start, end) == fault # <<>> /\ start + fault[1] < end

ExceptionText == "maximum recursion depth exceeded"

count_lines_splitlines(code) ==
    LET segs == split(code, "\n")
    IN  IF segs[Len(segs)] = <<>> THEN Len(segs) - 1 ELSE Len(segs)

\* len(code.split("\n"))
count_lines(code) == Len(split(code, "\n"))

reset_skipped(counter) == counter

\* self.node_id_counter = 0
reset_node_id_counter(counter) == 0

\* parse_and_convert on a converter whose counter is self_counter: the returned
\* dict and the counter the converter is left with.
parse_and_convert(self_counter, code, fault) ==
    LET start == reset_node_id_counter(self_counter)
        p == ast_parse(code)
    IN  IF p.raised = "SyntaxError"
        THEN [result |-> [success |-> FALSE,
                          tree |-> None,
                          error |-> <<"Syntax Error at line ", str_int(p.lineno), ": ", p.msg>>,
                          lines |-> count_lines(code)],
              counter |-> start]
        ELSE LET c == convert_node(p.tree, start)
             IN  IF raises(fault, start, c.counter)
                 THEN [result |-> [success |-> FALSE,
                                   tree |-> None,
                                   error |-> <<"Parse Error: ", ExceptionText>>,
                                   lines |-> count_lines(code)],
                       counter |-> start + fault[1]]
                 ELSE [result |-> [success |-> TRUE,
                                   tree |-> c.node,
                                   error |-> None,
                                   lines |-> count_lines(code)],
                       counter |-> c.counter]

(***************************************************************************)
(* class TreeFlattener.  An Optional[int] parent id is <<>> or <<id>>.     *)
(***************************************************************************)

\* Python truth of a dict or None.
truthy(d) == d # None /\ DOMAIN d # {}

isinstance_dict(v) == v # None

queue_pop_last(queue) == [item |-> queue[Len(queue)], rest |-> SubSeq(queue, 1, Len(queue) - 1)]

\* node_queue.pop(0)
queue_pop(queue) == [item |-> Head(queue), rest |-> Tail(queue)]

has_parent_truthy(parent_id) == parent_id # <<>> /\ parent_id[1] # 0

\* parent_id is not None
has_parent(parent_id) == parent_id # <<>>

\* The entries the loop over node.get("children", []) appends to the queue.
RECURSIVE enqueue_children(_, _, _)
enqueue_children(children, i, node_id) ==
    IF i > Len(children) THEN <<>>
    ELSE (IF isinstance_dict(children[i]) /\ "node" \in DOMAIN children[i]
          THEN << <<children[i].node, <<node_id>> >> >>
          ELSE <<>>) \o enqueue_children(children, i + 1, node_id)

\* The while loop of flatten_tree.
RECURSIVE flatten_loop(_, _, _)
flatten_loop(node_queue, nodes, links) ==
    IF node_queue = <<>> THEN [nodes |-> nodes, links |-> links]
    ELSE LET popped == queue_pop(node_queue)
             node == popped.item[1]
             parent_id == popped.item[2]
         IN  IF ~isinstance_dict(node) \/ "id" \notin DOMAIN node
             THEN flatten_loop(popped.rest, nodes, links)
             ELSE LET node_id == node.id
                  IN  flatten_loop(
                          popped.rest \o enqueue_children(dict_get(node, "children", <<>>), 1, node_id),
                          Append(nodes, [id |-> node_id,
                                         name |-> dict_get(node, "name", "Unknown"),
                                         attributes |-> dict_get(node, "attributes", <<>>),
                                         type |-> "node"]),
                          IF has_parent(parent_id)
                          THEN Append(links, [source |-> parent_id[1],
                                              target |-> node_id,
                                              field |-> dict_get(node, "field", "")])
                          ELSE links)

keep_empty_children(h) == h

\* if not h["children"]: h.pop("children")
drop_empty_children(h) == IF h.children = <<>> THEN dict_pop(h, "children") ELSE h

RECURSIVE build_hierarchy(_), build_children(_, _)

\* The loop of build_hierarchy over node.get("children", []).
build_children(children, i) ==
    IF i > Len(children) THEN <<>>
    ELSE (IF isinstance_dict(children[i]) /\ "node" \in DOMAIN children[i]
          THEN <<dict_set(build_hierarchy(children[i].node), "field",
                          dict_get(children[i], "field", ""))>>
          ELSE <<>>) \o build_children(children, i + 1)

build_hierarchy(node) ==
    drop_empty_children([id |-> dict_get(node, "id", None),
                         name |-> dict_get(node, "name", None),
                         attributes |-> dict_get(node, "attributes", <<>>),
                         children |-> build_children(dict_get(node, "children", <<>>), 1)])

flatten_tree(tree_dict) ==
    IF ~truthy(tree_dict) THEN <<>>
    ELSE LET r == flatten_loop(<< <<tree_dict, <<>> >> >>, <<>>, <<>>)
         IN  [nodes |-> r.nodes,
              links |-> r.links,
              hierarchy |-> IF truthy(tree_dict) THEN build_hierarchy(tree_dict) ELSE None]

(***************************************************************************)
(* parse_code and the POST /api/parse handler                              *)
(***************************************************************************)

\* parse_code(code): a converter of its own, then the flattening.
parse_code(code, fault) ==
    LET converter == ASTConverter_init
        result == parse_and_convert(converter, code, fault).result
    IN  IF result.success /\ truthy(result.tree)
        THEN dict_set(result, "flattened", flatten_tree(result.tree))
        ELSE dict_set(result, "flattened", None)

python == <<"p", "y", "t", "h", "o", "n">>

\* The language values of requests.
Languages == {python,
              <<"P", "y", "t", "h", "o", "n">>,
              <<"P", "Y", "T", "H", "O", "N">>,
              <<"r", "u", "b", "y">>,
              <<"R", "u", "b", "y">>}

\* The JSON bodies of requests: null, {}, and objects with string fields.
Bodies == {None, <<>>}
          \cup {[language |-> l] : l \in Languages}
          \cup {[code |-> c] : c \in Codes}
          \cup {[code |-> c, language |-> l] : c \in Codes, l \in Languages}

normalise_language_identity(language) == language

\* .lower() of the language value
normalise_language(language) == lower(language)

parse_status_by_success(result) == IF result.success THEN 200 ELSE 400

\* return jsonify(result): the status of the response that carries a ParseResult.
parse_status(result) == 200

\* api_parse: the response, and how many times parse_code ran.
api_parse(data, fault) ==
    IF ~truthy(data) \/ "code" \notin DOMAIN data
    THEN [status |-> 400, body |-> [error |-> <<"Missing 'code' field">>], parse_code_calls |-> 0]
    ELSE LET code == dict_get(data, "code", <<>>)
             language == normalise_language(dict_get(data, "language", python))
         IN  IF language # python
             THEN [status |-> 400,
                   body |-> [error |-> <<"Language '", language, "' not yet supported">>],
                   parse_code_calls |-> 0]
             ELSE IF strip(code) = <<>>
             THEN [status |-> 400,
                   body |-> [error |-> <<"Code cannot be empty">>],
                   parse_code_calls |-> 0]
             ELSE LET result == parse_code(code, fault)
                  IN  [status |-> parse_status(result), body |-> result, parse_code_calls |-> 1]

(***************************************************************************)
(* The state machine: a caller issues a call, the operation runs to its    *)
(* return, the caller takes the return value.                              *)
(***************************************************************************)

VARIABLES
    node_id_counter,   \* the counter of the long-lived ASTConverter
    call,              \* the call in progress: its operation and arguments
    ret,               \* what the call returned, None until it has
    counter_at_call,   \* node_id_counter when the call was issued
    parse_code_calls   \* parse_code invocations made by the call

vars == <<node_id_counter, call, ret, counter_at_call, parse_code_calls>>

Idle == [op |-> "idle"]

Init ==
    /\ node_id_counter = ASTConverter_init
    /\ call = Idle
    /\ ret = None
    /\ counter_at_call = ASTConverter_init
    /\ parse_code_calls = 0

\* A client posts a body to /api/parse.
PostApiParse == \E data \in Bodies, fault \in Faults :
    /\ call = Idle
    /\ call' = [op |-> "api_parse", data |-> data, fault |-> fault]
    /\ ret' = None
    /\ counter_at_call' = node_id_counter
    /\ parse_code_calls' = 0
    /\ UNCHANGED node_id_counter

\* A caller invokes parse_code(code).
CallParseCode == \E code \in Codes, fault \in Faults :
    /\ call = Idle
    /\ call' = [op |-> "parse_code", code |-> code, fault |-> fault]
    /\ ret' = None
    /\ counter_at_call' = node_id_counter
    /\ parse_code_calls' = 0
    /\ UNCHANGED node_id_counter

\* A caller invokes parse_and_convert(code) on the long-lived converter.
CallParseAndConvert == \E code \in Codes, fault \in Faults :
    /\ call = Idle
    /\ call' = [op |-> "parse_and_convert", code |-> code, fault |-> fault]
    /\ ret' = None
    /\ counter_at_call' = node_id_counter
    /\ parse_code_calls' = 0
    /\ UNCHANGED node_id_counter

ApiParse ==
    /\ call.op = "api_parse"
    /\ ret = None
    /\ LET r == api_parse(call.data, call.fault)
       IN  /\ ret' = [status |-> r.status, body |-> r.body]
           /\ parse_code_calls' = r.parse_code_calls
    /\ UNCHANGED <<node_id_counter, call, counter_at_call>>

ParseCode ==
    /\ call.op = "parse_code"
    /\ ret = None
    /\ ret' = parse_code(call.code, call.fault)
    /\ parse_code_calls' = 1
    /\ UNCHANGED <<node_id_counter, call, counter_at_call>>

ParseAndConvert ==
    /\ call.op = "parse_and_convert"
    /\ ret = None
    /\ LET r == parse_and_convert(node_id_counter, call.code, call.fault)
       IN  /\ ret' = r.result
           /\ node_id_counter' = r.counter
    /\ UNCHANGED <<call, counter_at_call, parse_code_calls>>

\* The caller takes the return value; the per-call objects are dropped.
Return ==
    /\ ret # None
    /\ call' = Idle
    /\ ret' = None
    /\ counter_at_call' = node_id_counter
    /\ parse_code_calls' = 0
    /\ UNCHANGED node_id_counter

\* The application: requests to /api/parse and calls of parse_code, each with
\* a converter of its own.
Next ==
    \/ PostApiParse
    \/ CallParseCode
    \/ ApiParse
    \/ ParseCode
    \/ Return

Spec == Init /\ [][Next]_vars

\* The module used as a library: one ASTConverter kept across calls of
\* parse_and_convert, between calls of parse_code.
NextConverter ==
    \/ CallParseAndConvert
    \/ CallParseCode
    \/ ParseAndConvert
    \/ ParseCode
    \/ Return

SpecConverter == Init /\ [][NextConverter]_vars

(***************************************************************************)
(* Properties.  What they read of a returned call.                         *)
(***************************************************************************)

Returned(op) == call.op = op /\ ret # None

\* The ParseResult a returned call carries, None when it carries none.
ParseResult ==
    IF Returned("parse_code") \/ Returned("parse_and_convert") THEN ret
    ELSE IF Returned("api_parse") /\ "success" \in DOMAIN ret.body THEN ret.body
    ELSE None

HasTree == ParseResult # None /\ ParseResult.success

HasFlattened ==
    /\ HasTree
    /\ "flattened" \in DOMAIN ParseResult
    /\ ParseResult.flattened # None
    /\ ParseResult.flattened # <<>>

Tree == ParseResult.tree
Flattened == ParseResult.flattened

Range(seq) == {seq[i] : i \in DOMAIN seq}

\* The nodes of a converted tree in pre-order, each with its depth, the id of
\* its parent (<<>> for the root), its index among its parent's children and
\* the field of the child entry that holds it.
RECURSIVE PreOrder(_, _, _, _, _), PreOrderChildren(_, _, _, _)
PreOrderChildren(children, i, depth, parent) ==
    IF i > Len(children) THEN <<>>
    ELSE PreOrder(children[i].node, depth, parent, i, children[i].field)
         \o PreOrderChildren(children, i + 1, depth, parent)

PreOrder(node, depth, parent, index, field) ==
    <<[id |-> node.id, depth |-> depth, parent |-> parent, index |-> index,
       field |-> field, node |-> node]>>
    \o PreOrderChildren(node.children, 1, depth + 1, <<node.id>>)

Rows(tree) == PreOrder(tree, 0, <<>>, 1, "")

\* The ids of a converted subtree.
SubtreeIds(node) == {r.id : r \in Range(Rows(node))}

\* The (parent id, child id, field) relationships of a converted tree.
TreeEdges(tree) ==
    {[source |-> r.parent[1], target |-> r.id, field |-> r.field] :
        r \in {q \in Range(Rows(tree)) : q.parent # <<>>}}

\* The nodes of a hierarchy in pre-order, each with the id of its parent.
RECURSIVE HierarchyRows(_, _), HierarchyChildren(_, _, _)
HierarchyChildren(children, i, parent) ==
    IF i > Len(children) THEN <<>>
    ELSE HierarchyRows(children[i], parent) \o HierarchyChildren(children, i + 1, parent)

HierarchyRows(h, parent) ==
    <<[id |-> h.id, parent |-> parent, h |-> h]>>
    \o HierarchyChildren(dict_get(h, "children", <<>>), 1, <<h.id>>)

\* Where the node with this id stands in the flat node list.
Position(nodes, id) == CHOOSE i \in DOMAIN nodes : nodes[i].id = id

\* C1: every child entry {field: f, node: c} of a parent p of the converted
\* tree has the link {source: p.id, target: c.id, field: f} in links.
C1_LinkCarriesField ==
    HasFlattened => \A e \in TreeEdges(Tree) : e \in Range(Flattened.links)

\* C2: the ids of a tree made by one parse are pairwise distinct, the root has
\* id 0, a node's id is below those of its descendants, every id under an earlier
\* sibling is below every id under a later one, and the ids are 0..n-1 in
\* pre-order.
C2_PreOrderIds ==
    HasTree =>
        LET rows == Rows(Tree)
        IN  /\ Tree.id = 0
            /\ \A i, j \in DOMAIN rows : i # j => rows[i].id # rows[j].id
            /\ \A i \in DOMAIN rows : rows[i].id = i - 1
            /\ \A r \in Range(rows) :
                   LET kids == r.node.children
                   IN  /\ \A k \in DOMAIN kids :
                              \A d \in SubtreeIds(kids[k].node) : r.id < d
                       /\ \A k, l \in DOMAIN kids :
                              k < l => \A a \in SubtreeIds(kids[k].node) :
                                           \A b \in SubtreeIds(kids[l].node) : a < b

\* A parse on the long-lived converter that succeeds with a two-operand
\* expression, the converter having been left at 2 by a failed conversion.
C2_Witness ==
    /\ Returned("parse_and_convert")
    /\ HasTree
    /\ counter_at_call = 2
    /\ \E r \in Range(Rows(Tree)) : Len(r.node.children) = 3

\* C3: whatever calls came before and however they ended, a parse returns what
\* the same parse returns on a converter fresh from construction, with ids
\* starting at 0.
C3_ParseIndependentOfHistory ==
    /\ Returned("parse_and_convert") =>
           /\ ret = parse_and_convert(ASTConverter_init, call.code, call.fault).result
           /\ ret.success => ret.tree.id = 0
    /\ Returned("parse_code") =>
           /\ ret = parse_code(call.code, call.fault)
           /\ ret.success => ret.tree.id = 0 /\ ret.flattened.nodes[1].id = 0

\* A successful parse on the long-lived converter right after a conversion that
\* failed with two nodes made.
C3_Witness ==
    /\ Returned("parse_and_convert")
    /\ counter_at_call = 2
    /\ ret.success
    /\ Len(ret.tree.children) > 0

\* C4: link targets are pairwise distinct, each is the id of exactly one flat
\* node, every flat node but the root is the target of exactly one link, the
\* root of none, and |nodes| = 1 + |links|.
C4_OneLinkPerNonRoot ==
    HasFlattened =>
        LET nodes == Flattened.nodes
            links == Flattened.links
        IN  /\ \A k, l \in DOMAIN links : k # l => links[k].target # links[l].target
            /\ \A k \in DOMAIN links :
                   Cardinality({i \in DOMAIN nodes : nodes[i].id = links[k].target}) = 1
            /\ \A i \in DOMAIN nodes :
                   Cardinality({k \in DOMAIN links : links[k].target = nodes[i].id})
                       = IF nodes[i].id = Tree.id THEN 0 ELSE 1
            /\ Len(nodes) = 1 + Len(links)

\* A flattening whose root has two children, one of them with children.
C4_Witness ==
    /\ HasFlattened
    /\ Len(Tree.children) = 2
    /\ Len(Flattened.links) > 2

\* C5: the ids of hierarchy are the ids of nodes, and every non-root hierarchy
\* node with parent p, id c and field f has exactly one link
\* {source: p, target: c, field: f}.
C5_HierarchyMatchesLinks ==
    HasFlattened =>
        LET rows == HierarchyRows(Flattened.hierarchy, <<>>)
            links == Flattened.links
        IN  /\ {r.id : r \in Range(rows)} = {n.id : n \in Range(Flattened.nodes)}
            /\ \A r \in Range(rows) :
                   r.parent # <<>> =>
                       Cardinality({k \in DOMAIN links :
                           links[k] = [source |-> r.parent[1], target |-> r.id,
                                       field |-> r.h.field]}) = 1

\* C6: in hierarchy no node has an empty children sequence, a node without
\* children has no children key, a node with children has them in child order,
\* every non-root node has the field of its child entry and the root has none.
RECURSIVE HierarchyAgrees(_, _, _, _)
HierarchyAgrees(h, node, isRoot, field) ==
    /\ h.id = node.id
    /\ h.name = node.name
    /\ h.attributes = node.attributes
    /\ ("field" \in DOMAIN h) = ~isRoot
    /\ ~isRoot => h.field = field
    /\ "children" \in DOMAIN h => h.children # <<>>
    /\ ("children" \in DOMAIN h) = (node.children # <<>>)
    /\ "children" \in DOMAIN h =>
           /\ Len(h.children) = Len(node.children)
           /\ \A i \in DOMAIN node.children :
                  HierarchyAgrees(h.children[i], node.children[i].node, FALSE,
                                  node.children[i].field)

C6_HierarchyShape ==
    HasFlattened => HierarchyAgrees(Flattened.hierarchy, Tree, TRUE, "")

\* A hierarchy with a leaf under a node that has several children.
C6_Witness ==
    /\ HasFlattened
    /\ \E r \in Range(HierarchyRows(Flattened.hierarchy, <<>>)) :
           /\ "children" \in DOMAIN r.h
           /\ Len(r.h.children) > 1
           /\ \E c \in Range(r.h.children) : "children" \notin DOMAIN c

NewlineCount(code) == Cardinality({i \in DOMAIN code : code[i] = "\n"})

\* C7: on a syntax error parse_code returns success false, no tree, no
\* flattening, an error that holds the line number and the parser's message, and
\* lines = the number of newline-delimited segments, as on success.
C7_SyntaxErrorResult ==
    Returned("parse_code") =>
        /\ ret.lines = NewlineCount(call.code) + 1
        /\ ast_parse(call.code).raised = "SyntaxError" =>
               /\ DOMAIN ret = {"success", "tree", "error", "lines", "flattened"}
               /\ ret.success = FALSE
               /\ ret.tree = None
               /\ ret.flattened = None
               /\ ret.error # None
               /\ \E i, j \in DOMAIN ret.error :
                      /\ i < j
                      /\ ret.error[i] = str_int(ast_parse(call.code).lineno)
                      /\ ret.error[j] = ast_parse(call.code).msg

\* parse_code returned from a text whose second line is malformed and which
\* ends with a newline.
C7_Witness ==
    /\ Returned("parse_code")
    /\ ast_parse(call.code).raised = "SyntaxError"
    /\ ast_parse(call.code).lineno = 2
    /\ call.code[Len(call.code)] = "\n"

\* The language value equals "python" but for the case of its letters.
IsPythonAnyCase(language) ==
    /\ Len(language) = Len(python)
    /\ \A i \in DOMAIN python :
           \E k \in DOMAIN LowerCase :
               /\ LowerCase[k] = python[i]
               /\ language[i] \in {LowerCase[k], UpperCase[k]}

AllWhitespace(code) == \A i \in DOMAIN code : isspace(code[i])

HasKey(data, key) == data # None /\ key \in DOMAIN data

\* C8: a body without code gets 400 "Missing 'code' field"; else one with a
\* language other than python gets 400; else one with empty or all-whitespace
\* code gets 400 "Code cannot be empty"; parse_code runs for none of these; every
\* other body gets 200 with the ParseResult, also when the parse failed.
C8_RequestClassification ==
    Returned("api_parse") =>
        LET data == call.data
        IN  IF ~HasKey(data, "code")
            THEN /\ ret = [status |-> 400, body |-> [error |-> <<"Missing 'code' field">>]]
                 /\ parse_code_calls = 0
            ELSE IF HasKey(data, "language") /\ ~IsPythonAnyCase(data.language)
            THEN /\ ret.status = 400
                 /\ DOMAIN ret.body = {"error"}
                 /\ parse_code_calls = 0
            ELSE IF AllWhitespace(data.code)
            THEN /\ ret = [status |-> 400, body |-> [error |-> <<"Code cannot be empty">>]]
                 /\ parse_code_calls = 0
            ELSE /\ ret.status = 200
                 /\ ret.body = parse_code(data.code, call.fault)
                 /\ DOMAIN ret.body = {"success", "tree", "error", "lines", "flattened"}
                 /\ parse_code_calls = 1

\* A request answered 200 with a parse that failed.
C8_Witness ==
    /\ Returned("api_parse")
    /\ ret.status = 200
    /\ ~ret.body.success
    /\ HasKey(call.data, "language")

\* C9 as stated: a language other than python is answered 400 with the
\* request's language value in the message, and every casing of python is
\* accepted.
C9_EchoesRequestLanguage ==
    (Returned("api_parse") /\ HasKey(call.data, "code") /\ HasKey(call.data, "language")) =>
        IF IsPythonAnyCase(call.data.language)
        THEN ret.status = 200 \/ ret.body = [error |-> <<"Code cannot be empty">>]
        ELSE ret = [status |-> 400,
                    body |-> [error |-> <<"Language '", call.data.language,
                                          "' not yet supported">>]]

\* C9 amended: a language other than python is answered 400 with the
\* lower-cased language value in the message, and every casing of python is
\* accepted.
C9_EchoesLowerCasedLanguage ==
    (Returned("api_parse") /\ HasKey(call.data, "code") /\ HasKey(call.data, "language")) =>
        IF IsPythonAnyCase(call.data.language)
        THEN ret.status = 200 \/ ret.body = [error |-> <<"Code cannot be empty">>]
        ELSE ret = [status |-> 400,
                    body |-> [error |-> <<"Language '", lower(call.data.language),
                                          "' not yet supported">>]]

\* A request in the language "Ruby" has been answered.
C9_Witness ==
    /\ Returned("api_parse")
    /\ HasKey(call.data, "code")
    /\ HasKey(call.data, "language")
    /\ call.data.language = <<"R", "u", "b", "y">>
    /\ ret.status = 400

\* C10: nodes is in level order (the root first, a shallower node before a
\* deeper one, nodes of one depth in the order of their parents and under one
\* parent in child order), a node comes after its parent, and the k-th link's
\* target is the (k+1)-th node.
C10_LevelOrder ==
    HasFlattened =>
        LET nodes == Flattened.nodes
            links == Flattened.links
            rows == Range(Rows(Tree))
            pos(id) == Position(nodes, id)
        IN  /\ {n.id : n \in Range(nodes)} = {r.id : r \in rows}
            /\ Len(nodes) = Cardinality(rows)
            /\ nodes[1].id = Tree.id
            /\ \A a, b \in rows :
                   /\ a.depth < b.depth => pos(a.id) < pos(b.id)
                   /\ (a.depth = b.depth /\ a.parent # b.parent
                       /\ pos(a.parent[1]) < pos(b.parent[1])) => pos(a.id) < pos(b.id)
                   /\ (a.parent = b.parent /\ a.index < b.index) => pos(a.id) < pos(b.id)
                   /\ a.parent # <<>> => pos(a.parent[1]) < pos(a.id)
            /\ Len(links) = Len(nodes) - 1
            /\ \A k \in DOMAIN links : links[k].target = nodes[k + 1].id

\* A flattening in which level order and pre-order differ.
C10_Witness ==
    /\ HasFlattened
    /\ \E i \in DOMAIN Flattened.nodes : Flattened.nodes[i].id # i - 1

====
